---- MODULE Spec2Model ----
(***************************************************************************)
(* Model of the Lithuanian product price search application                *)
(* (src/streamlit_app.py, src/db_operations.py): the search result         *)
(* retriever retrieve_search_results and the two handlers of main() that   *)
(* call it (the "Search Products" button of the specification-based tab    *)
(* and the form of the Direct Keyword Search tab); the four selectors and  *)
(* the phrase workflow of the specification-based tab; the start of a      *)
(* script run with its configuration check, the demo mode and the two      *)
(* catalog functions; and the batch price analysis of                      *)
(* display_search_results with analyze_product_url.                        *)
(*                                                                         *)
(* Specifications: Spec (specification-based tab), SpecDirect (direct      *)
(* tab), SpecRetrieve (the retriever over its arguments), SpecStartup (the *)
(* start of a run for every set of configured secrets), SpecBatch and      *)
(* SpecBatchFair (the batch price analysis, step by step).                 *)
(*                                                                         *)
(* Strings are sequences of tokens.  A token is an indivisible piece of    *)
(* text ("a", ".lt", "www.", "https://", "/", " ", ...), so the string     *)
(* operations of the code (lower, strip, replace, split, the host regex,   *)
(* the `in` substring test, f-string concatenation) are computed on the    *)
(* token sequence.  Python's None for a domain list is the empty sequence: *)
(* retrieve_search_results only ever tests these arguments for truthiness. *)
(* A search result keeps title, url, domain and is_priority_domain; the    *)
(* snippet is copied verbatim by the code and is left out.                 *)
(***************************************************************************)
EXTENDS Integers, Sequences, FiniteSets, TLC

VARIABLES domain_mode, restricted_domains, included_domains, excluded_domains,
          search_results, search_completed, run,
          selection, session_selection, search_phrase_generated, search_phrase,
          generate_call,
          secrets, demo_mode, startup,
          batch, analysis,
          search_history, searched_selection

\* the session's domain settings and search, and the retriever call of the run
searchVars == <<domain_mode, restricted_domains, included_domains, excluded_domains,
                search_results, search_completed, run>>

\* the four selectors of the specification-based tab and its phrase workflow
phraseVars == <<selection, session_selection, search_phrase_generated, search_phrase,
                generate_call>>

\* the deployment's secrets, the sidebar checkbox and what the start of the
\* script run did
startupVars == <<secrets, demo_mode, startup>>

\* the batch price analysis and the analysis of its current URL
analysisVars == <<batch, analysis>>

\* the search history of the session, and the selection the stored results
\* of the specification-based tab were retrieved under
historyVars == <<search_history, searched_selection>>

vars == <<searchVars, phraseVars, startupVars, analysisVars, historyVars>>

----------------------------------------------------------------------------
(* Bounds of the model *)

\* most lines in a text area of the direct tab / most domains in one list
MaxLines == 2
\* most items in one response of the search service
MaxItems == 2
\* most items in one response during a run of the specification-based tab,
\* whose session keeps the value returned
MaxSpecItems == 1
\* most rows the product catalog holds
MaxCatalogRows == 2
\* most search results selected for one batch price analysis
MaxSelected == 2
\* most product URLs the extractor returns for one aggregator page
MaxSubUrls == 2
\* most products one extraction returns
MaxProducts == 1
\* the entries of the search history
MaxHistory == 2

(* Program constants *)

\* "Google API max is 10 per request"
ApiMaxNum == 10
\* st.slider("Number of results", 1, 10, 10) of the specification-based tab
SpecSliderMin == 1
SpecSliderMax == 10
\* st.slider("Number of results", 5, 30, 10) of the direct tab
DirectSliderMin == 5
DirectSliderMax == 30

\* the slider positions the model tries, inside the sliders' ranges
SpecTotals == {1, 2, 10} \cap (SpecSliderMin..SpecSliderMax)
DirectTotals == {5, 10, 30} \cap (DirectSliderMin..DirectSliderMax)

ModeAll == "All Lithuanian domains"
ModeRestrict == "Restrict to specific domains"
ModeInclExcl == "Include/Exclude specific domains"
DomainModes == {ModeAll, ModeRestrict, ModeInclExcl}

\* the default exclusion list of the specification-based tab (32 news and
\* registry sites in the source), abbreviated to its first entry
DefaultExcluded == << <<"ic24", ".lt">> >>

\* search phrases typed or generated
Phrases == { <<"ssd", " ", "kaina">> }

\* what a user types into a domain text input of the specification-based tab
AddInputs == { <<"a", ".lt">>,
               <<" ", "www.", "A", ".lt", " ">>,
               <<"https://", "www.", "B", ".lt", "/", "p">> }

\* the lines a user types into a text area of the direct tab
TextLines == { <<>>,
               <<"a", ".lt">>,
               <<" ", "https://", "www.", "B", ".lt", "/", "p", " ">> }

\* the links the search service answers with
Links == { <<"https://", "www.", "a", ".lt", "/", "p">>,
           <<"http://", "shop", ".", "b", ".lt">>,
           <<"a", ".lt", "/", "p">> }

----------------------------------------------------------------------------
(* String helpers *)

Max(a, b) == IF a >= b THEN a ELSE b
Min(a, b) == IF a <= b THEN a ELSE b

Take(s, n) == SubSeq(s, 1, Min(n, Len(s)))

RECURSIVE Flatten(_)
Flatten(ss) == IF ss = <<>> THEN <<>> ELSE Head(ss) \o Flatten(Tail(ss))

\* str.lower()
LowerTok(t) == IF t = "A" THEN "a" ELSE IF t = "B" THEN "b" ELSE t
Lower(s) == [i \in 1..Len(s) |-> LowerTok(s[i])]

\* str.strip()
RECURSIVE LStrip(_)
LStrip(s) == IF s # <<>> /\ Head(s) = " " THEN LStrip(Tail(s)) ELSE s
RECURSIVE RStrip(_)
RStrip(s) == IF s # <<>> /\ s[Len(s)] = " " THEN RStrip(SubSeq(s, 1, Len(s) - 1)) ELSE s
Strip(s) == RStrip(LStrip(s))

\* str.replace(t, "")
RemoveTok(s, t) == SelectSeq(s, LAMBDA x : x # t)

\* str.split("/")[0]
RECURSIVE BeforeSlash(_)
BeforeSlash(s) ==
    IF s = <<>> \/ Head(s) = "/" THEN <<>> ELSE <<Head(s)>> \o BeforeSlash(Tail(s))

\* x.replace("http://", "").replace("https://", "").replace("www.", "").split("/")[0]
StripUrlParts(s) ==
    BeforeSlash(RemoveTok(RemoveTok(RemoveTok(s, "http://"), "https://"), "www."))

\* the cleaning of a typed domain
CleanDomain(raw) == StripUrlParts(Strip(Lower(raw)))

\* `needle in hay` on strings
Contains(hay, needle) ==
    \E k \in 0..(Len(hay) - Len(needle)) : SubSeq(hay, k + 1, k + Len(needle)) = needle

\* ', '.join(list)
RECURSIVE JoinComma(_)
JoinComma(ds) ==
    IF ds = <<>> THEN <<>>
    ELSE IF Len(ds) = 1 THEN Head(ds)
    ELSE Head(ds) \o <<", ">> \o JoinComma(Tail(ds))

----------------------------------------------------------------------------
(* Host extraction: re.search(r'https?://(?:www\.)?([^/]+)', url) *)

Schemes == {"http://", "https://"}
UnknownDomain == <<"Unknown domain">>

\* the longest run of characters other than "/" starting at token j
RECURSIVE HostRun(_, _)
HostRun(url, j) ==
    IF j > Len(url) \/ url[j] = "/" THEN <<>>
    ELSE IF url[j] = "http://" THEN <<"http:">>
    ELSE IF url[j] = "https://" THEN <<"https:">>
    ELSE <<url[j]>> \o HostRun(url, j + 1)

\* the regex matches at token i
MatchesAt(url, i) == url[i] \in Schemes /\ HostRun(url, i + 1) # <<>>

\* group(1) with the www. kept in the host
GroupAtKeepWww(url, i) == HostRun(url, i + 1)

\* group(1) of the match at token i: the optional www. is skipped when a
\* host follows it, and is the host itself otherwise
GroupAt(url, i) ==
    IF i + 1 <= Len(url) /\ url[i + 1] = "www." /\ HostRun(url, i + 2) # <<>>
    THEN HostRun(url, i + 2)
    ELSE HostRun(url, i + 1)

ExtractDomain(url) ==
    IF \E i \in 1..Len(url) : MatchesAt(url, i)
    THEN LET first == CHOOSE i \in 1..Len(url) :
                          /\ MatchesAt(url, i)
                          /\ \A k \in 1..(i - 1) : ~MatchesAt(url, k)
         IN  GroupAt(url, first)
    ELSE UnknownDomain

----------------------------------------------------------------------------
(* The search service *)

FailedResponse == [ok |-> FALSE, links |-> <<>>]

\* execute(): an exception (HTTP or authentication failure), or a response
\* carrying the links of its items (no "items" key and no item are alike)
ResponsesUpTo(most) ==
    {FailedResponse} \cup
    {[ok |-> TRUE, links |-> l] : l \in UNION {[1..n -> Links] : n \in 0..most}}

Responses == ResponsesUpTo(MaxItems)
SpecResponses == ResponsesUpTo(MaxSpecItems)

----------------------------------------------------------------------------
(* retrieve_search_results *)

\* one entry of the result list; the title of the k-th item of a response
\* is modelled as k
SearchResult(title, url, prio) ==
    [title |-> title, url |-> url, domain |-> ExtractDomain(url),
     is_priority_domain |-> prio]

SearchRequest(q, num) == [q |-> q, num |-> num]

\* the quota without its floor of 1
ResultsPerDomainNoFloor(num_results, domains) == num_results \div Len(domains)

\* results_per_domain = max(1, num_results // len(restricted_domains))
ResultsPerDomain(num_results, domains) == Max(1, num_results \div Len(domains))

\* domain_query = f"{query} site:{domain}"
DomainQuery(query, domain) == query \o <<" site:">> \o domain

\* the results appended for one response of a restricted sub-query
RestrictedItems(response) ==
    [k \in 1..Len(response.links) |-> SearchResult(k, response.links[k], TRUE)]

\* the loop left at the first failing request
RECURSIVE RestrictedLoopStopping(_, _, _, _, _, _)
RestrictedLoopStopping(query, domains, num_results, google, i, st) ==
    IF i > Len(domains) THEN st
    ELSE LET req == SearchRequest(DomainQuery(query, domains[i]),
                                  Min(ResultsPerDomain(num_results, domains), ApiMaxNum))
             response == google[i]
         IN  IF response.ok
             THEN RestrictedLoopStopping(query, domains, num_results, google, i + 1,
                      [st EXCEPT !.all_results = @ \o RestrictedItems(response),
                                 !.requests = Append(@, req)])
             ELSE [st EXCEPT !.requests = Append(@, req),
                             !.warnings = Append(@, domains[i])]

\* the for loop over restricted_domains, from domain i on; st is the
\* loop state [all_results, requests, warnings]
RECURSIVE RestrictedLoop(_, _, _, _, _, _)
RestrictedLoop(query, domains, num_results, google, i, st) ==
    IF i > Len(domains) THEN st
    ELSE LET req == SearchRequest(DomainQuery(query, domains[i]),
                                  Min(ResultsPerDomain(num_results, domains), ApiMaxNum))
             response == google[i]
             next == IF response.ok
                     THEN [st EXCEPT !.all_results = @ \o RestrictedItems(response),
                                     !.requests = Append(@, req)]
                     ELSE [st EXCEPT !.requests = Append(@, req),
                                     !.warnings = Append(@, domains[i])]
         IN  RestrictedLoop(query, domains, num_results, google, i + 1, next)

\* the exclusion clauses in reverse list order
RECURSIVE ExcludeClausesReversed(_)
ExcludeClausesReversed(excluded) ==
    IF excluded = <<>> THEN <<>>
    ELSE ExcludeClausesReversed(Tail(excluded)) \o <<" -site:">> \o Head(excluded)

\* modified_query of the default branch
RECURSIVE ExcludeClauses(_)
ExcludeClauses(excluded) ==
    IF excluded = <<>> THEN <<>>
    ELSE <<" -site:">> \o Head(excluded) \o ExcludeClauses(Tail(excluded))

ModifiedQuery(query, excluded) ==
    query \o <<" site:.lt -filetype:pdf">> \o ExcludeClauses(excluded)

\* the flag by equality with an included domain instead of containment
IsPriorityDomainExact(domain, included) ==
    IF included = <<>> THEN FALSE
    ELSE \E k \in 1..Len(included) : domain = included[k]

\* is_priority_domain of the default branch
IsPriorityDomain(domain, included) ==
    IF included = <<>> THEN FALSE
    ELSE \E k \in 1..Len(included) : Contains(domain, included[k])

OpenItems(response, included) ==
    [k \in 1..Len(response.links) |->
        SearchResult(k, response.links[k],
                     IsPriorityDomain(ExtractDomain(response.links[k]), included))]

\* the sort key without its negation
SortKeyInverted(r) == IF r.is_priority_domain THEN 1 ELSE 0

\* key=lambda x: not x.get("is_priority_domain", False)
SortKey(r) == IF r.is_priority_domain THEN 0 ELSE 1

\* an insertion that puts an entry before the entries of equal key
RECURSIVE InsertByKeyUnstable(_, _)
InsertByKeyUnstable(sorted, r) ==
    IF sorted = <<>> THEN <<r>>
    ELSE IF SortKey(Head(sorted)) < SortKey(r)
         THEN <<Head(sorted)>> \o InsertByKeyUnstable(Tail(sorted), r)
         ELSE <<r>> \o sorted

\* list.sort(key=...): a stable sort, here by insertion
RECURSIVE InsertByKey(_, _)
InsertByKey(sorted, r) ==
    IF sorted = <<>> THEN <<r>>
    ELSE IF SortKey(Head(sorted)) <= SortKey(r)
         THEN <<Head(sorted)>> \o InsertByKey(Tail(sorted), r)
         ELSE <<r>> \o sorted

RECURSIVE SortByPriority(_)
SortByPriority(results) ==
    IF results = <<>> THEN <<>>
    ELSE InsertByKey(SortByPriority(SubSeq(results, 1, Len(results) - 1)),
                     results[Len(results)])

ResultsValue(results, query) ==
    [keys |-> {"results", "query"}, results |-> results, query |-> query]

\* {"error": ...}
ErrorValue == [keys |-> {"error"}, results |-> <<>>, query |-> <<>>]

\* the whitelist branch without the cut to num_results
RestrictedSearchUncut(query, restricted, num_results, google) ==
    LET st == RestrictedLoop(query, restricted, num_results, google, 1,
                             [all_results |-> <<>>, requests |-> <<>>, warnings |-> <<>>])
    IN  [requests |-> st.requests,
         warnings |-> st.warnings,
         ret |-> ResultsValue(st.all_results,
                              query \o <<" (restricted to: ">> \o JoinComma(restricted)
                                    \o <<")">>)]

\* the branch for a non-empty restricted_domains
RestrictedSearch(query, restricted, num_results, google) ==
    LET st == RestrictedLoop(query, restricted, num_results, google, 1,
                             [all_results |-> <<>>, requests |-> <<>>, warnings |-> <<>>])
    IN  [requests |-> st.requests,
         warnings |-> st.warnings,
         ret |-> ResultsValue(Take(st.all_results, num_results),
                              query \o <<" (restricted to: ">> \o JoinComma(restricted)
                                    \o <<")">>)]

\* the default branch taking a failed request for an empty answer
OpenSearchSwallow(query, included, excluded, num_results, google) ==
    LET req == SearchRequest(ModifiedQuery(query, excluded), num_results)
        found == OpenItems(google[1], included)
    IN  [requests |-> <<req>>,
         warnings |-> <<>>,
         ret |-> ResultsValue(IF included # <<>> THEN SortByPriority(found) ELSE found,
                              ModifiedQuery(query, excluded))]

\* the default branch
OpenSearch(query, included, excluded, num_results, google) ==
    LET req == SearchRequest(ModifiedQuery(query, excluded), num_results)
        response == google[1]
        found == OpenItems(response, included)
    IN  [requests |-> <<req>>,
         warnings |-> <<>>,
         ret |-> IF ~response.ok THEN ErrorValue
                 ELSE ResultsValue(IF included # <<>> THEN SortByPriority(found) ELSE found,
                                   ModifiedQuery(query, excluded))]

\* google[k] is the service's answer to the k-th request of the call.
\* build() only constructs the client from the key main() has checked to be
\* present, so the failures of a call are those of execute().
RetrieveSearchResults(query, restricted, included, excluded, num_results, google) ==
    IF restricted # <<>>
    THEN RestrictedSearch(query, restricted, num_results, google)
    ELSE OpenSearch(query, included, excluded, num_results, google)

\* the answers the service may give during one call: one per whitelist
\* domain, or one
GoogleAnswers(restricted, responses) == [1..Max(1, Len(restricted)) -> responses]

----------------------------------------------------------------------------
(* State *)

\* no value stored yet
NoValue == [keys |-> {}, results |-> <<>>, query |-> <<>>]

\* what one script run did with the retriever: the handler that ran, the
\* domain mode selected in its tab, the arguments of the call, the answers
\* of the service, the requests sent, the warnings shown and the value
\* returned
RunRecord(handler, mode, query, restricted, included, excluded, num_results, google) ==
    LET out == RetrieveSearchResults(query, restricted, included, excluded,
                                     num_results, google)
    IN  [handler |-> handler, mode |-> mode, query |-> query,
         restricted |-> restricted, included |-> included, excluded |-> excluded,
         num_results |-> num_results, google |-> google,
         requests |-> out.requests, warnings |-> out.warnings, ret |-> out.ret]

\* a script run that does not search, and the state between two runs
NoRun ==
    [handler |-> "none", mode |-> ModeAll, query |-> <<>>,
     restricted |-> <<>>, included |-> <<>>, excluded |-> <<>>,
     num_results |-> 0, google |-> <<>>,
     requests |-> <<>>, warnings |-> <<>>, ret |-> NoValue]

\* nothing selected: the empty option of a selector, or a selector that is
\* not shown (None); the code only tests the value for truthiness
NoSelection == [grupe |-> "", modulis |-> "", dalis |-> "", specifikacija |-> ""]

\* the run did not call generate_search_phrase
NoCall == [called |-> FALSE, arguments |-> NoSelection, calls |-> 0,
           ret |-> [ok |-> FALSE, search_phrase |-> <<>>]]

\* a call of a catalog function that was not made
NoFetch == [called |-> FALSE, connect |-> "none", query |-> "none", ret |-> <<>>,
            messages |-> <<>>, connects |-> 0, queries |-> 0, open |-> 0]

\* the secrets a deployment can configure: the four credentials of the
\* section [config] and the host of the section [mysql]
Credentials == <<"google_api_key", "google_cse_id", "openai_api_key", "firecrawl_api_key">>
AllSecrets == {Credentials[k] : k \in 1..Len(Credentials)} \cup {"mysql"}

\* missing_keys with the check of one credential left out
MissingKeysUnchecked(configured, demo) ==
    SelectSeq(Credentials, LAMBDA key : key \notin configured /\ key # "firecrawl_api_key")
    \o (IF ~demo /\ "mysql" \notin configured THEN <<"mysql configuration">> ELSE <<>>)

\* missing_keys: the credentials that are not configured, in the order of
\* the checks, then the store's configuration unless the demo mode is on
MissingKeys(configured, demo) ==
    SelectSeq(Credentials, LAMBDA key : key \notin configured)
    \o (IF ~demo /\ "mysql" \notin configured THEN <<"mysql configuration">> ELSE <<>>)

\* the script run did nothing at its start yet that the model records
NoStartup ==
    [ran |-> FALSE, missing_keys |-> <<>>, stopped |-> FALSE,
     specs_data |-> <<>>, spec_params |-> <<>>, messages |-> <<>>,
     catalog |-> NoFetch, parameters |-> NoFetch]

\* no batch price analysis is going on
IdleBatch ==
    [status |-> "idle", search_parameters |-> "none", selected_results |-> <<>>, i |-> 0,
     attempts |-> <<>>, outcomes |-> <<>>, price_analyses |-> {}, reports |-> <<>>]

\* the analysis of a URL before analyze_product_url is called for it
FreshAnalysis ==
    [stage |-> "Unanalyzed", ret |-> "pending", product_list |-> <<>>,
     extractor |-> "pending", urls_list |-> <<>>, sub |-> 0, calls |-> <<>>,
     scraped |-> "pending", rounds |-> <<>>]

\* no script run is going on
Idle ==
    /\ run = NoRun
    /\ generate_call = NoCall
    /\ startup = NoStartup
    /\ batch = IdleBatch

\* the script run gets past the configuration check, so that the tabs and
\* their controls are shown
ControlsAvailable == Idle /\ MissingKeys(secrets, demo_mode) = <<>>

Init ==
    /\ domain_mode = ModeAll
    /\ restricted_domains = <<>>
    /\ included_domains = <<>>
    /\ excluded_domains = DefaultExcluded
    /\ search_results = NoValue
    /\ search_completed = FALSE
    /\ run = NoRun
    /\ selection = NoSelection
    /\ session_selection = NoSelection
    /\ search_phrase_generated = FALSE
    /\ search_phrase = <<>>
    /\ generate_call = NoCall
    /\ secrets = AllSecrets
    /\ demo_mode = FALSE
    /\ startup = NoStartup
    /\ batch = IdleBatch
    /\ analysis = FreshAnalysis
    /\ search_history = <<>>
    /\ searched_selection = NoSelection

InList(d, list) == \E k \in 1..Len(list) : list[k] = d

\* list.remove(d): drops the first occurrence
RECURSIVE RemoveFirst(_, _)
RemoveFirst(list, d) ==
    IF list = <<>> THEN <<>>
    ELSE IF Head(list) = d THEN Tail(list)
    ELSE <<Head(list)>> \o RemoveFirst(Tail(list), d)

----------------------------------------------------------------------------
(* Specification-based tab: the four selectors, the phrase workflow, the   *)
(* domain mode, the whitelist and the search button.  The session's        *)
(* included and excluded lists keep their initial values here.  Every      *)
(* action is one script run in which the catalog was loaded.               *)

\* the sample rows of get_demo_specs_data
get_demo_specs_data ==
    << [grupe |-> "Electronics", modulis |-> "Computers", dalis |-> "Laptops",
        specifikacija |-> "Gaming Laptops", spec_id |-> 101],
       [grupe |-> "Electronics", modulis |-> "Computers", dalis |-> "Laptops",
        specifikacija |-> "Ultrabooks", spec_id |-> 102],
       [grupe |-> "Electronics", modulis |-> "Computers", dalis |-> "Desktops",
        specifikacija |-> "Gaming PCs", spec_id |-> 103],
       [grupe |-> "Electronics", modulis |-> "Phones", dalis |-> "Smartphones",
        specifikacija |-> "Android Phones", spec_id |-> 104],
       [grupe |-> "Electronics", modulis |-> "Phones", dalis |-> "Smartphones",
        specifikacija |-> "iPhones", spec_id |-> 105],
       [grupe |-> "Home", modulis |-> "Appliances", dalis |-> "Kitchen",
        specifikacija |-> "Refrigerators", spec_id |-> 106],
       [grupe |-> "Home", modulis |-> "Appliances", dalis |-> "Kitchen",
        specifikacija |-> "Microwaves", spec_id |-> 107],
       [grupe |-> "Home", modulis |-> "Furniture", dalis |-> "Living Room",
        specifikacija |-> "Sofas", spec_id |-> 108] >>

\* the rows the catalog query returns: the store is filled with the first
\* rows of the sample data
StoreRows == Take(get_demo_specs_data, MaxCatalogRows)

\* the rows the selectors are built from: the sample rows in the demo
\* mode, else the rows of the store
SpecsDataFor(demo) == IF demo THEN get_demo_specs_data ELSE StoreRows
SpecsData == SpecsDataFor(demo_mode)

Levels == <<"grupe", "modulis", "dalis", "specifikacija">>

\* the position of a level in the hierarchy
LevelIndex(level) == CHOOSE k \in 1..Len(Levels) : Levels[k] = level

\* the rows that agree with the selection on every level above `level`
FilteredRows(data, sel, level) ==
    {data[r] : r \in {q \in 1..Len(data) :
        \A k \in 1..(LevelIndex(level) - 1) : data[q][Levels[k]] = sel[Levels[k]]}}

\* the non-empty options of the selector of a level; a selector is shown
\* only when every level above it has a value
Options(data, sel, level) ==
    IF \A k \in 1..(LevelIndex(level) - 1) : sel[Levels[k]] # ""
    THEN {row[level] : row \in FilteredRows(data, sel, level)}
    ELSE {}

\* the selection after the selector of `level` took `value`: the selectors
\* below it are rebuilt and start at their empty option
Selected(sel, level, value) ==
    [l \in DOMAIN sel |->
        IF LevelIndex(l) < LevelIndex(level) THEN sel[l]
        ELSE IF l = level THEN value
        ELSE ""]

\* all levels but the specification have a value
AllSelectedButSpecification(sel) ==
    sel.grupe # "" /\ sel.modulis # "" /\ sel.dalis # ""

\* selected_grupe and selected_modulis and selected_dalis and selected_spec
AllSelected(sel) ==
    sel.grupe # "" /\ sel.modulis # "" /\ sel.dalis # "" /\ sel.specifikacija # ""

\* the button "Generate Search Phrase" is shown
GenerateAvailable == AllSelected(selection) /\ ~search_phrase_generated

\* the buttons "Regenerate Phrase" and "Search Products" are shown
SearchAvailable == AllSelected(selection) /\ search_phrase_generated

\* the texts the language model may put into a JSON string
ModelTexts == {<<>>, <<"ssd">>} \cup Phrases

\* an answer to the chat completion call of generate_search_phrase: the
\* call raises, the content is not JSON, the JSON is not an object, or it is
\* an object whose search_phrase is missing, is null or is a string
ModelResponses ==
    {[kind |-> k, field |-> "missing", text |-> <<>>] :
        k \in {"api_error", "not_json", "not_object"}}
    \cup {[kind |-> "object", field |-> f, text |-> <<>>] : f \in {"missing", "null"}}
    \cup {[kind |-> "object", field |-> "string", text |-> t] : t \in ModelTexts}

\* generate_search_phrase for an answer of the model: None after an
\* exception of the call, of json.loads, of .get on a value that is no
\* object or of the validation of SearchPhrase; else the phrase of the
\* object, "" when the object has none
generate_search_phrase(response) ==
    IF response.kind # "object" \/ response.field = "null"
    THEN [ok |-> FALSE, search_phrase |-> <<>>]
    ELSE [ok |-> TRUE,
          search_phrase |-> IF response.field = "missing" THEN <<>> ELSE response.text]

\* what generate_search_phrase returns in the runs that search afterwards:
\* None after a failure, or a phrase
PhraseOutcomes ==
    {generate_search_phrase(response) : response \in
        {r \in ModelResponses : r.kind = "api_error" \/
                                (r.field = "string" /\ r.text \in Phrases)}}

\* the session's phrase and flag after the call, with the phrase cleared by
\* a failure
AfterGenerateClearing(outcome, phrase, generated) ==
    IF outcome.ok
    THEN [search_phrase |-> outcome.search_phrase, search_phrase_generated |-> TRUE]
    ELSE [search_phrase |-> <<>>, search_phrase_generated |-> generated]

\* the session's phrase and flag after the call: set from a result, left
\* alone after None
AfterGenerate(outcome, phrase, generated) ==
    IF outcome.ok
    THEN [search_phrase |-> outcome.search_phrase, search_phrase_generated |-> TRUE]
    ELSE [search_phrase |-> phrase, search_phrase_generated |-> generated]

\* a selector run that stores the changed selection and keeps the flag
SelectKeepingFlag(level, value) ==
    /\ ControlsAvailable
    /\ value \in Options(SpecsData, selection, level) \cup {""}
    /\ value # selection[level]
    /\ selection' = Selected(selection, level, value)
    /\ IF AllSelected(selection')
       THEN session_selection' = selection'
       ELSE UNCHANGED session_selection
    /\ UNCHANGED <<search_phrase_generated, search_phrase, generate_call, searchVars,
                   startupVars, analysisVars>>
    /\ UNCHANGED historyVars

\* one of the four selectors takes another value; a complete selection that
\* differs from the one the session holds is stored and asks for a new phrase
Select(level, value) ==
    /\ ControlsAvailable
    /\ value \in Options(SpecsData, selection, level) \cup {""}
    /\ value # selection[level]
    /\ selection' = Selected(selection, level, value)
    /\ IF AllSelected(selection')
       THEN /\ session_selection' = selection'
            /\ search_phrase_generated' =
                  IF session_selection # selection' THEN FALSE
                  ELSE search_phrase_generated
       ELSE UNCHANGED <<session_selection, search_phrase_generated>>
    /\ UNCHANGED <<search_phrase, generate_call, searchVars, startupVars, analysisVars>>
    /\ UNCHANGED historyVars

\* the button "Generate Search Phrase"
GeneratePhrase(outcome) ==
    /\ ControlsAvailable
    /\ GenerateAvailable
    /\ generate_call' = [called |-> TRUE, arguments |-> selection, calls |-> 1,
                          ret |-> outcome]
    /\ LET after == AfterGenerate(outcome, search_phrase, search_phrase_generated)
       IN  /\ search_phrase' = after.search_phrase
           /\ search_phrase_generated' = after.search_phrase_generated
    /\ UNCHANGED <<selection, session_selection, searchVars, startupVars, analysisVars>>
    /\ UNCHANGED historyVars

\* the button "Regenerate Phrase"
RegeneratePhrase ==
    /\ ControlsAvailable
    /\ SearchAvailable
    /\ search_phrase_generated' = FALSE
    /\ UNCHANGED <<selection, session_selection, search_phrase, generate_call,
                   searchVars, startupVars, analysisVars>>
    /\ UNCHANGED historyVars

\* the radio "Domain Search Mode:"
SetDomainMode(m) ==
    /\ ControlsAvailable
    /\ m # domain_mode
    /\ domain_mode' = m
    /\ run' = NoRun
    /\ UNCHANGED <<restricted_domains, included_domains, excluded_domains,
                   search_results, search_completed>>
    /\ UNCHANGED <<phraseVars, startupVars, analysisVars>>
    /\ UNCHANGED historyVars

\* the button "Add Domain" with a non-empty text input
AddRestrictedDomain(raw) ==
    /\ ControlsAvailable
    /\ domain_mode = ModeRestrict
    /\ raw # <<>>
    /\ LET clean_domain == CleanDomain(raw)
       IN  restricted_domains' = IF InList(clean_domain, restricted_domains)
                                 THEN restricted_domains
                                 ELSE Append(restricted_domains, clean_domain)
    /\ run' = NoRun
    /\ UNCHANGED <<domain_mode, included_domains, excluded_domains,
                   search_results, search_completed>>
    /\ UNCHANGED <<phraseVars, startupVars, analysisVars>>
    /\ UNCHANGED historyVars

\* unchecking the checkbox of the i-th whitelist domain
UncheckRestricted(i) ==
    /\ ControlsAvailable
    /\ domain_mode = ModeRestrict
    /\ i \in 1..Len(restricted_domains)
    /\ restricted_domains' = RemoveFirst(restricted_domains, restricted_domains[i])
    /\ run' = NoRun
    /\ UNCHANGED <<domain_mode, included_domains, excluded_domains,
                   search_results, search_completed>>
    /\ UNCHANGED <<phraseVars, startupVars, analysisVars>>
    /\ UNCHANGED historyVars

\* the button "Add Included" with a non-empty text input
AddIncludedDomain(raw) ==
    /\ ControlsAvailable
    /\ domain_mode = ModeInclExcl
    /\ raw # <<>>
    /\ LET clean_domain == CleanDomain(raw)
       IN  included_domains' = IF InList(clean_domain, included_domains)
                               THEN included_domains
                               ELSE Append(included_domains, clean_domain)
    /\ run' = NoRun
    /\ UNCHANGED <<domain_mode, restricted_domains, excluded_domains,
                   search_results, search_completed>>
    /\ UNCHANGED <<phraseVars, startupVars, analysisVars, historyVars>>

\* unchecking the checkbox of the i-th prioritized domain
UncheckIncluded(i) ==
    /\ ControlsAvailable
    /\ domain_mode = ModeInclExcl
    /\ i \in 1..Len(included_domains)
    /\ included_domains' = RemoveFirst(included_domains, included_domains[i])
    /\ run' = NoRun
    /\ UNCHANGED <<domain_mode, restricted_domains, excluded_domains,
                   search_results, search_completed>>
    /\ UNCHANGED <<phraseVars, startupVars, analysisVars, historyVars>>

\* "Add Excluded" appending whatever is typed
AddExcludedDomainUnchecked(raw) ==
    /\ ControlsAvailable
    /\ domain_mode = ModeInclExcl
    /\ raw # <<>>
    /\ excluded_domains' = Append(excluded_domains, CleanDomain(raw))
    /\ run' = NoRun
    /\ UNCHANGED <<domain_mode, restricted_domains, included_domains,
                   search_results, search_completed>>
    /\ UNCHANGED <<phraseVars, startupVars, analysisVars, historyVars>>

\* the button "Add Excluded" with a non-empty text input
AddExcludedDomain(raw) ==
    /\ ControlsAvailable
    /\ domain_mode = ModeInclExcl
    /\ raw # <<>>
    /\ LET clean_domain == CleanDomain(raw)
       IN  excluded_domains' = IF InList(clean_domain, excluded_domains)
                               THEN excluded_domains
                               ELSE Append(excluded_domains, clean_domain)
    /\ run' = NoRun
    /\ UNCHANGED <<domain_mode, restricted_domains, included_domains,
                   search_results, search_completed>>
    /\ UNCHANGED <<phraseVars, startupVars, analysisVars, historyVars>>

\* domains_to_keep: the entries whose checkbox is still checked, in order
DomainsToKeep(list, i) ==
    SubSeq(list, 1, i - 1) \o SubSeq(list, i + 1, Len(list))

\* unchecking the checkbox of the i-th excluded domain
UncheckExcluded(i) ==
    /\ ControlsAvailable
    /\ domain_mode = ModeInclExcl
    /\ i \in 1..Len(excluded_domains)
    /\ excluded_domains' = DomainsToKeep(excluded_domains, i)
    /\ run' = NoRun
    /\ UNCHANGED <<domain_mode, restricted_domains, included_domains,
                   search_results, search_completed>>
    /\ UNCHANGED <<phraseVars, startupVars, analysisVars, historyVars>>

\* the domain configuration section alone: the mode radio and the add and
\* uncheck controls of the three lists
NextDomains ==
    \/ \E m \in DomainModes : SetDomainMode(m)
    \/ \E raw \in AddInputs : AddRestrictedDomain(raw)
    \/ \E i \in 1..Len(restricted_domains) : UncheckRestricted(i)
    \/ \E raw \in AddInputs : AddIncludedDomain(raw)
    \/ \E i \in 1..Len(included_domains) : UncheckIncluded(i)
    \/ \E raw \in AddInputs : AddExcludedDomain(raw)
    \/ \E i \in 1..Len(excluded_domains) : UncheckExcluded(i)

SpecDomains == Init /\ [][NextDomains]_vars

\* the domain lists main() hands to the retriever under the selected mode
RestrictedArg == IF domain_mode = ModeRestrict THEN restricted_domains ELSE <<>>
IncludedArg == IF domain_mode = ModeInclExcl THEN included_domains ELSE <<>>
ExcludedArg == IF domain_mode = ModeInclExcl THEN excluded_domains ELSE <<>>

\* the button "Search Products"; phrase is the text of the edit box
SearchProducts(phrase, num_results, google) ==
    /\ ControlsAvailable
    /\ SearchAvailable
    /\ run' = RunRecord("SearchProducts", domain_mode, phrase,
                        RestrictedArg, IncludedArg, ExcludedArg, num_results, google)
    /\ search_results' = run'.ret
    /\ search_completed' = TRUE
    /\ searched_selection' = session_selection
    /\ UNCHANGED <<domain_mode, restricted_domains, included_domains, excluded_domains>>
    /\ UNCHANGED <<phraseVars, startupVars, analysisVars, search_history>>

\* the script run is over; the application waits for the next interaction
EndRun ==
    /\ batch = IdleBatch
    /\ ~Idle
    /\ run' = NoRun
    /\ generate_call' = NoCall
    /\ startup' = NoStartup
    /\ UNCHANGED <<domain_mode, restricted_domains, included_domains, excluded_domains,
                   search_results, search_completed>>
    /\ UNCHANGED <<selection, session_selection, search_phrase_generated, search_phrase>>
    /\ UNCHANGED <<secrets, demo_mode, analysisVars>>
    /\ UNCHANGED historyVars

Next ==
    \/ \E k \in 1..Len(Levels) :
          \E value \in Options(SpecsData, selection, Levels[k]) \cup {""} :
             Select(Levels[k], value)
    \/ \E outcome \in PhraseOutcomes : GeneratePhrase(outcome)
    \/ RegeneratePhrase
    \/ \E m \in DomainModes : SetDomainMode(m)
    \/ \E raw \in AddInputs : AddRestrictedDomain(raw)
    \/ \E i \in 1..Len(restricted_domains) : UncheckRestricted(i)
    \/ /\ ControlsAvailable
       /\ SearchAvailable
       /\ \E phrase \in Phrases, n \in SpecTotals :
             \E google \in GoogleAnswers(RestrictedArg, SpecResponses) :
                SearchProducts(phrase, n, google)
    \/ EndRun

Spec == Init /\ [][Next]_vars

----------------------------------------------------------------------------
(* Start of a script run: the sidebar checkbox, the configuration check,   *)
(* the catalog and the parameters of the selected specification; and the   *)
(* two catalog functions of db_operations.py                               *)

\* the sample parameters of get_demo_spec_params
get_demo_spec_params ==
    << [parametras |-> "Procesorius", reikalavimas |-> "Intel Core i7 arba geresnis"],
       [parametras |-> "RAM", reikalavimas |-> "Maziausiai 16GB"],
       [parametras |-> "Diskas", reikalavimas |-> "SSD, maziausiai 512GB"],
       [parametras |-> "Ekranas", reikalavimas |-> "15.6 coliu, FullHD"] >>

\* the rows the parameter query returns for a specification of the store
StoreParameters == <<Head(get_demo_spec_params)>>

\* mysql.connector.connect returns a connection that is connected, raises
\* Error, or returns a connection for which is_connected() is false
ConnectOutcomes == {"connected", "error", "not_connected"}

\* the query returns its rows, or raises Error with the connection still
\* connected, or raises Error because the connection was lost
QueryOutcomes == {"rows", "error", "error_lost"}

\* get_product_specifications / get_specification_parameters: one call of
\* connect_to_database, and with a connection one query; the connection is
\* closed after the rows were fetched, and after an Error when it is still
\* connected
Fetch(connect, query, rows) ==
    LET connected == connect = "connected"
        closed == connected /\ query \in {"rows", "error"}
        lost == connected /\ query = "error_lost"
    IN  [called |-> TRUE,
         connect |-> connect,
         query |-> IF connected THEN query ELSE "none",
         ret |-> IF connected /\ query = "rows" THEN rows ELSE <<>>,
         messages |-> IF connect = "error" THEN <<"Error connecting to MySQL database">>
                      ELSE IF connected /\ query # "rows" THEN <<"Error executing query">>
                      ELSE <<>>,
         connects |-> 1,
         queries |-> IF connected THEN 1 ELSE 0,
         open |-> IF connected /\ ~closed /\ ~lost THEN 1 ELSE 0]

\* the catalog read from the store also in the demo mode
LoadedCatalogFromStore(demo, connect, query) ==
    LET fetch == Fetch(connect, query, StoreRows)
    IN  [fetch |-> fetch, specs_data |-> fetch.ret]

\* specs_data of the run: the sample rows in the demo mode, without a call
\* of the store, else what get_product_specifications returns
LoadedCatalog(demo, connect, query) ==
    IF demo THEN [fetch |-> NoFetch, specs_data |-> get_demo_specs_data]
    ELSE LET fetch == Fetch(connect, query, StoreRows)
         IN  [fetch |-> fetch, specs_data |-> fetch.ret]

\* spec_params of the run, loaded when a specification is selected
LoadedParameters(demo, sel, connect, query) ==
    IF sel.specifikacija = "" THEN [fetch |-> NoFetch, spec_params |-> <<>>]
    ELSE IF demo THEN [fetch |-> NoFetch, spec_params |-> get_demo_spec_params]
    ELSE LET fetch == Fetch(connect, query, StoreParameters)
         IN  [fetch |-> fetch, spec_params |-> fetch.ret]

\* the values the selectors keep when they are built from other rows: a
\* selector whose options changed, and every selector below it, starts at
\* its empty option again
Kept(sel, old, new) ==
    [l \in DOMAIN sel |->
        IF \A k \in 1..LevelIndex(l) :
              Options(old, sel, Levels[k]) = Options(new, sel, Levels[k])
        THEN sel[l] ELSE ""]

\* the sidebar checkbox "Demo Mode (No MySQL)", shown before the
\* configuration check; selectors that are not shown in the run lose their
\* values
ToggleDemoMode ==
    /\ Idle
    /\ demo_mode' = ~demo_mode
    /\ selection' = IF MissingKeys(secrets, demo_mode') # <<>> THEN NoSelection
                    ELSE Kept(selection, SpecsData, SpecsDataFor(demo_mode'))
    /\ UNCHANGED <<secrets, startup, session_selection, search_phrase_generated,
                   search_phrase, generate_call, searchVars, analysisVars>>
    /\ UNCHANGED historyVars

\* a script run from its first line to the selectors: the configuration
\* check stops it when a key is missing; else the catalog is loaded, the
\* run stops when it is empty, and the parameters are loaded
LoadPage(connect, query, connect_parameters, query_parameters) ==
    /\ Idle
    /\ LET missing_keys == MissingKeys(secrets, demo_mode)
           catalog == LoadedCatalog(demo_mode, connect, query)
           parameters == LoadedParameters(demo_mode, selection, connect_parameters,
                                          query_parameters)
       IN  startup' =
             IF missing_keys # <<>>
             THEN [NoStartup EXCEPT !.ran = TRUE, !.missing_keys = missing_keys,
                                    !.stopped = TRUE,
                                    !.messages = <<"Missing configuration in secrets">>]
             ELSE IF catalog.specs_data = <<>>
             THEN [NoStartup EXCEPT !.ran = TRUE, !.stopped = TRUE,
                                    !.catalog = catalog.fetch,
                                    !.messages = catalog.fetch.messages \o
                                        <<"Failed to retrieve product specifications from database.">>]
             ELSE [NoStartup EXCEPT !.ran = TRUE,
                                    !.catalog = catalog.fetch,
                                    !.specs_data = catalog.specs_data,
                                    !.parameters = parameters.fetch,
                                    !.spec_params = parameters.spec_params,
                                    !.messages = catalog.fetch.messages \o
                                        parameters.fetch.messages \o
                                        (IF selection.specifikacija # "" /\
                                            parameters.spec_params = <<>>
                                         THEN <<"No additional specification parameters available.">>
                                         ELSE <<>>)]
    /\ UNCHANGED <<secrets, demo_mode, searchVars, phraseVars, analysisVars>>
    /\ UNCHANGED historyVars

\* the deployments: every set of configured secrets
InitStartup ==
    /\ secrets \in SUBSET AllSecrets
    /\ demo_mode = FALSE
    /\ startup = NoStartup
    /\ domain_mode = ModeAll
    /\ restricted_domains = <<>>
    /\ included_domains = <<>>
    /\ excluded_domains = DefaultExcluded
    /\ search_results = NoValue
    /\ search_completed = FALSE
    /\ run = NoRun
    /\ selection = NoSelection
    /\ session_selection = NoSelection
    /\ search_phrase_generated = FALSE
    /\ search_phrase = <<>>
    /\ generate_call = NoCall
    /\ batch = IdleBatch
    /\ analysis = FreshAnalysis
    /\ search_history = <<>>
    /\ searched_selection = NoSelection

NextStartup ==
    \/ ToggleDemoMode
    \/ /\ Idle
       /\ \E connect, connect_parameters \in ConnectOutcomes :
             \E query, query_parameters \in QueryOutcomes :
                LoadPage(connect, query, connect_parameters, query_parameters)
    \/ \E k \in 1..Len(Levels) :
          \E value \in Options(SpecsData, selection, Levels[k]) \cup {""} :
             Select(Levels[k], value)
    \/ \E outcome \in PhraseOutcomes : GeneratePhrase(outcome)
    \/ RegeneratePhrase
    \/ EndRun

SpecStartup == InitStartup /\ [][NextStartup]_vars

----------------------------------------------------------------------------
(* The phrase workflow alone, for every answer of the language model and   *)
(* both sources of the catalog                                             *)

NextPhrase ==
    \/ \E k \in 1..Len(Levels) :
          \E value \in Options(SpecsData, selection, Levels[k]) \cup {""} :
             Select(Levels[k], value)
    \/ \E response \in ModelResponses : GeneratePhrase(generate_search_phrase(response))
    \/ RegeneratePhrase
    \/ ToggleDemoMode
    \/ EndRun

SpecPhrase == Init /\ [][NextPhrase]_vars

----------------------------------------------------------------------------
(* Direct Keyword Search tab *)

\* the text areas: one to MaxLines lines
Texts == UNION {[1..n -> TextLines] : n \in 1..MaxLines}
EmptyText == << <<>> >>

\* the loop over input.split('\n')
RECURSIVE ParseDomainLines(_)
ParseDomainLines(text) ==
    IF text = <<>> THEN <<>>
    ELSE LET domain == Lower(Strip(Head(text)))
         IN  (IF domain # <<>> THEN <<StripUrlParts(domain)>> ELSE <<>>)
             \o ParseDomainLines(Tail(text))

\* a text area's list, None (the empty list) when it was left empty
DirectList(text) == IF text # EmptyText THEN ParseDomainLines(text) ELSE <<>>

\* the lists the form's handler builds under the selected mode
DirectRestricted(mode, text) == IF mode = ModeRestrict THEN DirectList(text) ELSE <<>>
DirectInclExcl(mode, text) == IF mode = ModeInclExcl THEN DirectList(text) ELSE <<>>

\* the entry of the search put in front of the history
AfterDirectSearchPrepend(history, search_query, ret) ==
    IF "error" \in ret.keys THEN history
    ELSE <<[query |-> search_query, results |-> ret.results]>> \o history

\* the session's search history after the search: an error value adds
\* nothing, any other value appends one entry with the query and the result
\* list (the entry's timestamp is the clock's and is left out)
AfterDirectSearch(history, search_query, ret) ==
    IF "error" \in ret.keys THEN history
    ELSE Append(history, [query |-> search_query, results |-> ret.results])

\* the form's submit button with a non-empty query; a text area that the
\* selected mode does not show is passed as EmptyText
DirectSearch(search_query, mode, restricted_input, included_input, excluded_input, num_results, google) ==
    /\ ControlsAvailable
    /\ search_query # <<>>
    /\ run' = RunRecord("DirectSearch", mode, search_query,
                        DirectRestricted(mode, restricted_input),
                        DirectInclExcl(mode, included_input),
                        DirectInclExcl(mode, excluded_input), num_results, google)
    /\ search_history' = AfterDirectSearch(search_history, search_query, run'.ret)
    /\ UNCHANGED <<domain_mode, restricted_domains, included_domains, excluded_domains,
                   search_results, search_completed>>
    /\ UNCHANGED <<phraseVars, startupVars, analysisVars, searched_selection>>

\* the searches of the direct tab up to the first one stored in the history:
\* a later search differs only in the history it finds, which SpecHistory
\* explores
NextDirect ==
    \/ /\ ControlsAvailable
       /\ search_history = <<>>
       /\ \E search_query \in Phrases, n \in DirectTotals :
             \/ \E google \in GoogleAnswers(<<>>, Responses) :
                   DirectSearch(search_query, ModeAll, EmptyText, EmptyText, EmptyText,
                                n, google)
             \/ \E t \in Texts :
                   \E google \in GoogleAnswers(DirectRestricted(ModeRestrict, t), Responses) :
                      DirectSearch(search_query, ModeRestrict, t, EmptyText, EmptyText,
                                   n, google)
             \/ \E ti \in Texts, te \in Texts :
                   \E google \in GoogleAnswers(<<>>, Responses) :
                      DirectSearch(search_query, ModeInclExcl, EmptyText, ti, te, n, google)
    \/ EndRun

SpecDirect == Init /\ [][NextDirect]_vars

\* tab 3 "Search History": the entries in reversed order
HistoryListing(history) == [k \in 1..Len(history) |-> history[Len(history) + 1 - k]]

\* the queries typed into the direct tab when the history is followed
HistoryQueries == Phrases \cup { <<"ssd">> }

\* a session of searches in the direct tab, up to MaxHistory stored ones,
\* with changes of the domain mode of the other tab in between
NextHistory ==
    \/ /\ ControlsAvailable
       /\ Len(search_history) < MaxHistory
       /\ \E search_query \in HistoryQueries, n \in DirectTotals :
             \E google \in GoogleAnswers(<<>>, SpecResponses) :
                DirectSearch(search_query, ModeAll, EmptyText, EmptyText, EmptyText,
                             n, google)
    \/ \E m \in DomainModes : SetDomainMode(m)
    \/ EndRun

SpecHistory == Init /\ [][NextHistory]_vars

----------------------------------------------------------------------------
(* retrieve_search_results over the arguments its callers can pass *)

CallerDomains == {CleanDomain(raw) : raw \in AddInputs} \cup
                 {d \in {StripUrlParts(Lower(Strip(l))) : l \in TextLines} : d # <<>>}

DomainLists == UNION {[1..n -> CallerDomains] : n \in 0..MaxLines}

Totals == SpecTotals \cup DirectTotals

Retrieve(query, restricted, included, excluded, num_results, google) ==
    /\ run = NoRun
    /\ run' = RunRecord("retrieve_search_results",
                        IF restricted # <<>> THEN ModeRestrict ELSE ModeInclExcl,
                        query, restricted, included, excluded, num_results, google)
    /\ UNCHANGED <<domain_mode, restricted_domains, included_domains, excluded_domains,
                   search_results, search_completed>>
    /\ UNCHANGED <<phraseVars, startupVars, analysisVars>>
    /\ UNCHANGED historyVars

NextRetrieve ==
    \/ /\ run = NoRun
       /\ \E query \in Phrases, n \in Totals :
             \/ \E restricted \in DomainLists \ {<<>>} :
                   \E google \in GoogleAnswers(restricted, Responses) :
                      Retrieve(query, restricted, <<>>, <<>>, n, google)
             \/ \E included \in DomainLists, excluded \in DomainLists :
                   \E google \in GoogleAnswers(<<>>, Responses) :
                      Retrieve(query, <<>>, included, excluded, n, google)
    \/ EndRun

SpecRetrieve == Init /\ [][NextRetrieve]_vars

----------------------------------------------------------------------------
(* Properties of the search result retriever *)

\* the run called the retriever
Searched == run.handler # "none"
\* the call took the whitelist branch / the default branch
WhitelistCall == Searched /\ run.restricted # <<>>
DefaultCall == Searched /\ run.restricted = <<>>
\* the call returned a result list
ReturnedResults == Searched /\ run.ret.keys = {"results", "query"}

\* title and url of every entry of a result list
TitleUrl(results) == [k \in 1..Len(results) |-> <<results[k].title, results[k].url>>]

\* title and url of the items of the k-th answer, none when it failed
AnswerItems(k) ==
    IF run.google[k].ok
    THEN [j \in 1..Len(run.google[k].links) |-> <<j, run.google[k].links[j]>>]
    ELSE <<>>

\* the items of all answers in request order
AllAnswerItems == Flatten([k \in 1..Len(run.google) |-> AnswerItems(k)])

\* the number of ` -site:<d>` clauses of query q: d follows the marker and
\* the next marker or the end of the query follows d
SiteClauseCount(q, d) ==
    Cardinality({p \in 1..Len(q) :
        /\ q[p] = " -site:"
        /\ p + Len(d) <= Len(q)
        /\ SubSeq(q, p + 1, p + Len(d)) = d
        /\ (p + Len(d) = Len(q) \/ q[p + Len(d) + 1] = " -site:")})

\* C1: a call with a non-empty whitelist D and total N issues exactly |D|
\* requests, the i-th for `<query> site:<D[i]>`, returns at most N entries,
\* and every entry is flagged priority.
C1_RestrictedContract ==
    WhitelistCall =>
        /\ Len(run.requests) = Len(run.restricted)
        /\ \A i \in 1..Len(run.requests) :
              run.requests[i].q = run.query \o <<" site:">> \o run.restricted[i]
        /\ ReturnedResults
        /\ Len(run.ret.results) <= run.num_results
        /\ \A k \in 1..Len(run.ret.results) : run.ret.results[k].is_priority_domain

\* two whitelist domains, both answered with items, total 1: the list is cut
C1_Witness ==
    /\ WhitelistCall
    /\ Len(run.restricted) = 2
    /\ run.num_results = 1
    /\ Len(AllAnswerItems) >= 2
    /\ Len(run.ret.results) = 1

\* C2 (as claimed): under the default branch every excluded domain of the
\* caller's list appears as a `-site:` clause of the query exactly once.
C2_ExcludedOnce ==
    DefaultCall =>
        \A k \in 1..Len(run.excluded) :
            SiteClauseCount(run.requests[1].q, run.excluded[k]) = 1

\* C3: the priority sort is stable: two returned entries with the same flag
\* are in the order in which the service returned them.  In the default
\* branch the k-th item of the answer has title k; in the whitelist branch
\* the returned list is a prefix of the answers' items in request order.
C3_StableSort ==
    ReturnedResults =>
        IF run.restricted = <<>>
        THEN \A i, j \in 1..Len(run.ret.results) :
                (i < j /\ run.ret.results[i].is_priority_domain
                            = run.ret.results[j].is_priority_domain)
                => run.ret.results[i].title < run.ret.results[j].title
        ELSE \A i \in 1..Len(run.ret.results) :
                <<run.ret.results[i].title, run.ret.results[i].url>> = AllAnswerItems[i]

\* a sorted list holding two entries with the same flag and different urls
C3_Witness ==
    /\ DefaultCall /\ ReturnedResults
    /\ run.included # <<>>
    /\ \E i, j \in 1..Len(run.ret.results) :
          /\ i < j
          /\ run.ret.results[i].is_priority_domain = run.ret.results[j].is_priority_domain
          /\ run.ret.results[i].url # run.ret.results[j].url

\* C4: in every returned list no entry that is not priority precedes a
\* priority entry.
C4_PriorityFirst ==
    ReturnedResults =>
        \A i, j \in 1..Len(run.ret.results) :
            (i < j /\ run.ret.results[j].is_priority_domain)
            => run.ret.results[i].is_priority_domain

\* the service answered a non-priority item before a priority one
C4_Witness ==
    /\ DefaultCall /\ ReturnedResults
    /\ Len(run.ret.results) = 2
    /\ run.ret.results[1].is_priority_domain
    /\ ~run.ret.results[2].is_priority_domain
    /\ run.ret.results[1].title = 2

\* the quota of C5: N div |D|, at least 1 and at most 10
C5Quota ==
    LET q == run.num_results \div Len(run.restricted)
    IN  IF q < 1 THEN 1 ELSE IF q > 10 THEN 10 ELSE q

C6_AtMostTenPerCall ==
    \A i \in 1..Len(run.requests) : run.requests[i].num <= 10

\* some request of the call failed
SomeRequestFailed ==
    Searched /\ \E i \in 1..Len(run.requests) : ~run.google[i].ok

\* the whitelist domains whose request failed, in whitelist order
FailedDomains ==
    SelectSeq([i \in 1..Len(run.restricted) |-> <<i, run.restricted[i]>>],
              LAMBDA e : ~run.google[e[1]].ok)

\* C7 (as claimed): when a request fails, under any policy, the value
\* returned carries an error entry and no results.
C7_ErrorValueAnyPolicy ==
    SomeRequestFailed => run.ret.keys = {"error"} /\ run.ret.results = <<>>

\* C7 (amended): the call always returns a value.  When the request of the
\* default branch fails the value is the error value, without results.  When
\* requests of the whitelist branch fail the value is a result list without
\* an error entry, and exactly the failing domains are reported as warnings.
C7_ErrorHandling ==
    /\ Searched => run.ret.keys \in {{"error"}, {"results", "query"}}
    /\ SomeRequestFailed =>
          IF run.restricted = <<>>
          THEN run.ret.keys = {"error"} /\ run.ret.results = <<>> /\ run.warnings = <<>>
          ELSE /\ run.ret.keys = {"results", "query"}
               /\ run.warnings = [k \in 1..Len(FailedDomains) |-> FailedDomains[k][2]]
    /\ (Searched /\ ~SomeRequestFailed) =>
          run.ret.keys = {"results", "query"} /\ run.warnings = <<>>

\* the first whitelist request fails, the second brings results
C7_Witness ==
    /\ WhitelistCall
    /\ Len(run.restricted) = 2
    /\ ~run.google[1].ok
    /\ run.google[2].ok
    /\ run.ret.results # <<>>
    /\ Len(run.warnings) = 1

\* C8 (as claimed): with the restricted mode selected every request of a
\* search is scoped to a domain of the session's whitelist, whatever the
\* whitelist holds.
C8_RestrictedOnlyWhitelist ==
    (Searched /\ run.mode = ModeRestrict) =>
        \A i \in 1..Len(run.requests) :
            \E k \in 1..Len(restricted_domains) :
                run.requests[i].q = run.query \o <<" site:">> \o restricted_domains[k]

\* C9: in the default branch exactly one request is issued, and its query is
\* the phrase, ` site:.lt -filetype:pdf`, and one ` -site:<d>` clause per
\* excluded domain in list order.
C9_OpenQuery ==
    DefaultCall =>
        /\ Len(run.requests) = 1
        /\ run.requests[1].q =
              run.query \o <<" site:.lt -filetype:pdf">>
                        \o Flatten([k \in 1..Len(run.excluded) |->
                                       <<" -site:">> \o run.excluded[k]])
        /\ ReturnedResults => run.ret.query = run.requests[1].q

\* two different excluded domains
C9_Witness ==
    /\ DefaultCall /\ ReturnedResults
    /\ Len(run.excluded) = 2
    /\ run.excluded[1] # run.excluded[2]

\* C10: in the default branch an entry is flagged priority exactly when some
\* included domain is contained in its extracted host; without included
\* domains no entry is flagged.
C10_PriorityFlag ==
    (DefaultCall /\ ReturnedResults) =>
        \A k \in 1..Len(run.ret.results) :
            run.ret.results[k].is_priority_domain
            <=> \E d \in 1..Len(run.included) :
                   \E p \in 0..Len(run.ret.results[k].domain) :
                      /\ p + Len(run.included[d]) <= Len(run.ret.results[k].domain)
                      /\ \A c \in 1..Len(run.included[d]) :
                            run.ret.results[k].domain[p + c] = run.included[d][c]

\* an included domain that is a proper part of a flagged entry's host, next
\* to an entry that is not flagged
C10_Witness ==
    /\ DefaultCall /\ ReturnedResults
    /\ run.included # <<>>
    /\ \E k \in 1..Len(run.ret.results) :
          /\ run.ret.results[k].is_priority_domain
          /\ \A d \in 1..Len(run.included) : run.included[d] # run.ret.results[k].domain
    /\ \E k \in 1..Len(run.ret.results) : ~run.ret.results[k].is_priority_domain

----------------------------------------------------------------------------
(* Batch price analysis: display_search_results from the button "Start     *)
(* Price Analysis" on, and analyze_product_url step by step, one step per  *)
(* external call.  The selected results, their aggregator checkboxes and   *)
(* the kind of search_parameters the tab passes are the arguments of       *)
(* display_search_results.                                                 *)

\* the sequences over S of a length up to n
SeqsUpTo(S, n) == UNION {[1..k -> S] : k \in 0..n}

\* search_parameters: the dict built by the specification-based tab, or the
\* query string the Direct Keyword Search tab passes
SearchParametersKinds == {"dict", "str"}

\* the selected results, in the order of the result list, each with the
\* value of its "Aggregator" checkbox; the results are distinct entries
SelectedResults ==
    {sel \in UNION {[1..n -> [url : Links, is_aggregator : BOOLEAN]] : n \in 1..MaxSelected} :
        \A j, k \in 1..Len(sel) : j # k => sel[j].url # sel[k].url}

\* a scrape returns a document with markdown, one without, or raises
ScrapeOutcomes == {"markdown", "no_markdown", "error"}

\* get_urls raises (the call fails or its output cannot be parsed), or
\* returns product entries whose product_url may be empty
ExtractorOutcomes ==
    {[ok |-> FALSE, urls |-> <<>>]} \cup
    {[ok |-> TRUE, urls |-> u] : u \in SeqsUpTo({"", "sub"}, MaxSubUrls)}

\* the product extraction raises (the call fails or its output cannot be
\* parsed), or returns a list of products
ParseOutcomes ==
    {[ok |-> FALSE, products |-> <<>>]} \cup
    {[ok |-> TRUE, products |-> ps] : ps \in SeqsUpTo({"product"}, MaxProducts)}

\* the records appended for the answer of an extraction: product.model_dump()
\* of each product in turn, here named by the page read (0 for the page
\* itself, k for its k-th product URL) and the place in the answer
Products(page, parse) == [j \in 1..Len(parse.products) |-> <<page, j>>]

\* the result analysed now
CurrentResult == batch.selected_results[batch.i]

\* the analysis after a return or an exception caught by the outer handler
Returned(a, stage, ret) == [a EXCEPT !.stage = stage, !.ret = ret]

\* statements before the try block: reading the fields of search_parameters
\* raises for a string, and nothing catches it inside the function
AfterEntry(a, kind) ==
    IF kind = "str" THEN Returned(a, "Failed", "raised")
    ELSE [a EXCEPT !.stage = "Scraping"]

\* the scrape of the page, repeated after an exception
AfterScrapeRetry(a, outcome, is_aggregator_page) ==
    LET scraped == [a EXCEPT !.calls = Append(@, <<"scrape", 0>>), !.scraped = outcome]
    IN  IF outcome = "error" THEN scraped
        ELSE IF outcome = "no_markdown" THEN Returned(scraped, "Failed", "None")
        ELSE [scraped EXCEPT !.stage = IF is_aggregator_page THEN "AggregatorExpansion"
                                       ELSE "DirectExtraction"]

\* the scrape of the page: None without markdown or after an exception,
\* else the branch the caller's flag names
AfterScrape(a, outcome, is_aggregator_page) ==
    LET scraped == [a EXCEPT !.calls = Append(@, <<"scrape", 0>>), !.scraped = outcome]
    IN  IF outcome # "markdown" THEN Returned(scraped, "Failed", "None")
        ELSE [scraped EXCEPT !.stage = IF is_aggregator_page THEN "AggregatorExpansion"
                                       ELSE "DirectExtraction"]

\* get_urls with an empty answer reported as a failure
AfterExpansionEmptyAsNone(a, outcome) ==
    LET asked == [a EXCEPT !.calls = Append(@, <<"get_urls", 0>>)]
    IN  IF ~outcome.ok THEN Returned([asked EXCEPT !.extractor = "raised"], "Failed", "None")
        ELSE IF outcome.urls = <<>>
        THEN Returned([asked EXCEPT !.extractor = "returned"], "Failed", "None")
        ELSE [asked EXCEPT !.extractor = "returned", !.urls_list = outcome.urls,
                           !.sub = 1, !.stage = "PerSubUrlExtraction"]

\* get_urls on the aggregator page: None after an exception, the empty
\* list when no URL was found, else the loop over the URLs
AfterExpansion(a, outcome) ==
    LET asked == [a EXCEPT !.calls = Append(@, <<"get_urls", 0>>)]
    IN  IF ~outcome.ok THEN Returned([asked EXCEPT !.extractor = "raised"], "Failed", "None")
        ELSE IF outcome.urls = <<>>
        THEN Returned([asked EXCEPT !.extractor = "returned"], "Done", "list")
        ELSE [asked EXCEPT !.extractor = "returned", !.urls_list = outcome.urls,
                           !.sub = 1, !.stage = "PerSubUrlExtraction"]

\* what one round of the loop met: the entry's product_url, whether its
\* scrape gave markdown, and the number of products its extraction returned
\* (none when the round did not get that far or the extraction failed)
Round(product_url, scrape, parse) ==
    LET markdown == product_url # "" /\ scrape = "markdown"
    IN  [product_url |-> product_url,
         markdown |-> markdown,
         found |-> IF markdown /\ parse.ok THEN Len(parse.products) ELSE 0]

\* the extraction asked for whatever the scrape of the sub-URL gave
SubUrlCallsAlwaysParse(k, product_url, scrape) ==
    IF product_url = "" THEN <<>>
    ELSE << <<"scrape", k>>, <<"parse", k>> >>

\* the external calls of the round for sub-URL k: none for an entry without
\* product_url, the scrape, and the extraction once the scrape gave markdown
SubUrlCalls(k, product_url, scrape) ==
    IF product_url = "" THEN <<>>
    ELSE IF scrape # "markdown" THEN << <<"scrape", k>> >>
    ELSE << <<"scrape", k>>, <<"parse", k>> >>

\* the products of the round put in front of the list
SubUrlProductsPrepend(list, k, product_url, scrape, parse) ==
    IF product_url # "" /\ scrape = "markdown" /\ parse.ok THEN Products(k, parse) \o list
    ELSE list

\* product_list after the round: the products of a scraped and parsed
\* sub-URL are appended one by one, any other round leaves the list alone
SubUrlProducts(list, k, product_url, scrape, parse) ==
    IF product_url # "" /\ scrape = "markdown" /\ parse.ok THEN list \o Products(k, parse)
    ELSE list

\* the loop asking for the scrape of the next sub-URL before the extraction
\* of the current one
AfterSubUrlPrefetch(a, scrape, parse) ==
    LET k == a.sub
        product_url == a.urls_list[k]
        last == k = Len(a.urls_list)
        own == SubUrlCalls(k, product_url, scrape)
        ahead == IF last \/ a.urls_list[Min(k + 1, Len(a.urls_list))] = "" THEN <<>>
                 ELSE << <<"scrape", k + 1>> >>
    IN  [a EXCEPT !.calls = @ \o (IF Len(own) = 2 THEN <<own[1]>> \o ahead \o <<own[2]>>
                                  ELSE own),
                  !.product_list = SubUrlProducts(@, k, product_url, scrape, parse),
                  !.rounds = Append(@, Round(product_url, scrape, parse)),
                  !.sub = k + 1,
                  !.stage = IF last THEN "Done" ELSE "PerSubUrlExtraction",
                  !.ret = IF last THEN "list" ELSE "pending"]

\* one round of the loop over the URLs of the aggregator page: an entry
\* without product_url is skipped, a scrape without markdown adds nothing,
\* an exception of the scrape or of the extraction is caught and the loop
\* goes on; after the last round the list is returned
AfterSubUrl(a, scrape, parse) ==
    LET k == a.sub
        product_url == a.urls_list[k]
        last == k = Len(a.urls_list)
    IN  [a EXCEPT !.calls = @ \o SubUrlCalls(k, product_url, scrape),
                  !.product_list = SubUrlProducts(@, k, product_url, scrape, parse),
                  !.rounds = Append(@, Round(product_url, scrape, parse)),
                  !.sub = k + 1,
                  !.stage = IF last THEN "Done" ELSE "PerSubUrlExtraction",
                  !.ret = IF last THEN "list" ELSE "pending"]

\* the extraction from a direct product page
AfterDirect(a, outcome) ==
    LET asked == [a EXCEPT !.calls = Append(@, <<"parse", 0>>)]
    IN  IF outcome.ok
        THEN Returned([asked EXCEPT !.product_list = Products(0, outcome)], "Done", "list")
        ELSE Returned(asked, "Failed", "None")

\* dict assignment: price_analyses[url] = list
Put(dict, url, list) == {entry \in dict : entry[1] # url} \cup {<<url, list>>}

\* the batch after an analysis that gives up the remaining results when
\* the analysis failed
AfterAnalysisAbort(b, a) ==
    [b EXCEPT !.outcomes = Append(@, [ret |-> a.ret, product_list |-> a.product_list]),
              !.price_analyses =
                  IF a.ret = "list" /\ a.product_list # <<>>
                  THEN Put(@, b.selected_results[b.i].url, a.product_list) ELSE @,
              !.i = IF a.stage = "Failed" THEN Len(b.selected_results) + 1 ELSE @ + 1]

\* the batch after the analysis of the current result: a truthy value is
\* stored under the url, an exception is caught and reported, and the loop
\* goes to the next result
AfterAnalysis(b, a) ==
    [b EXCEPT !.outcomes = Append(@, [ret |-> a.ret, product_list |-> a.product_list]),
              !.price_analyses =
                  IF a.ret = "list" /\ a.product_list # <<>>
                  THEN Put(@, b.selected_results[b.i].url, a.product_list) ELSE @,
              !.i = @ + 1]

\* what the section "Analysis Results" shows for the k-th selected result
Report(b, k) ==
    LET found == {entry \in b.price_analyses : entry[1] = b.selected_results[k].url}
    IN  IF found = {} THEN "failed"
        ELSE IF \E entry \in found : entry[2] # <<>> THEN "products"
        ELSE "empty"

\* the button "Start Price Analysis", shown when a result is selected
StartPriceAnalysis(kind, selected) ==
    /\ ControlsAvailable
    /\ selected # <<>>
    /\ batch' = [IdleBatch EXCEPT !.status = "running", !.search_parameters = kind,
                                  !.selected_results = selected, !.i = 1]
    /\ analysis' = FreshAnalysis
    /\ UNCHANGED <<searchVars, phraseVars, startupVars>>
    /\ UNCHANGED historyVars

\* the call of analyze_product_url for the current result
BeginAnalysis ==
    /\ batch.status = "running"
    /\ batch.i <= Len(batch.selected_results)
    /\ analysis.stage = "Unanalyzed"
    /\ batch' = [batch EXCEPT !.attempts = Append(@, CurrentResult.url)]
    /\ analysis' = AfterEntry(analysis, batch.search_parameters)
    /\ UNCHANGED <<searchVars, phraseVars, startupVars>>
    /\ UNCHANGED historyVars

ScrapePage(outcome) ==
    /\ batch.status = "running"
    /\ analysis.stage = "Scraping"
    /\ analysis' = AfterScrape(analysis, outcome, CurrentResult.is_aggregator)
    /\ UNCHANGED <<batch, searchVars, phraseVars, startupVars>>
    /\ UNCHANGED historyVars

ExpandAggregator(outcome) ==
    /\ batch.status = "running"
    /\ analysis.stage = "AggregatorExpansion"
    /\ analysis' = AfterExpansion(analysis, outcome)
    /\ UNCHANGED <<batch, searchVars, phraseVars, startupVars>>
    /\ UNCHANGED historyVars

ExtractSubUrl(scrape, parse) ==
    /\ batch.status = "running"
    /\ analysis.stage = "PerSubUrlExtraction"
    /\ analysis' = AfterSubUrl(analysis, scrape, parse)
    /\ UNCHANGED <<batch, searchVars, phraseVars, startupVars>>
    /\ UNCHANGED historyVars

ExtractDirect(outcome) ==
    /\ batch.status = "running"
    /\ analysis.stage = "DirectExtraction"
    /\ analysis' = AfterDirect(analysis, outcome)
    /\ UNCHANGED <<batch, searchVars, phraseVars, startupVars>>
    /\ UNCHANGED historyVars

\* analyze_product_url is left; the loop of the batch takes the outcome
FinishAnalysis ==
    /\ batch.status = "running"
    /\ batch.i <= Len(batch.selected_results)
    /\ analysis.stage \in {"Done", "Failed"}
    /\ batch' = AfterAnalysis(batch, analysis)
    /\ analysis' = IF batch'.i <= Len(batch.selected_results) THEN FreshAnalysis
                   ELSE analysis
    /\ UNCHANGED <<searchVars, phraseVars, startupVars>>
    /\ UNCHANGED historyVars

\* after the loop: "Price analysis completed!" and the analysis results
CompleteBatch ==
    /\ batch.status = "running"
    /\ batch.i > Len(batch.selected_results)
    /\ batch' = [batch EXCEPT !.status = "completed",
                              !.reports = [k \in 1..Len(batch.selected_results) |->
                                              Report(batch, k)]]
    /\ UNCHANGED <<analysis, searchVars, phraseVars, startupVars>>
    /\ UNCHANGED historyVars

\* the script run of the batch is over
EndBatch ==
    /\ batch.status = "completed"
    /\ batch' = IdleBatch
    /\ analysis' = FreshAnalysis
    /\ UNCHANGED <<searchVars, phraseVars, startupVars>>
    /\ UNCHANGED historyVars

\* the steps the script run takes by itself once the batch is started
BatchStep ==
    \/ BeginAnalysis
    \/ \E outcome \in ScrapeOutcomes : ScrapePage(outcome)
    \/ \E outcome \in ExtractorOutcomes : ExpandAggregator(outcome)
    \/ \E scrape \in ScrapeOutcomes, parse \in ParseOutcomes : ExtractSubUrl(scrape, parse)
    \/ \E outcome \in ParseOutcomes : ExtractDirect(outcome)
    \/ FinishAnalysis
    \/ CompleteBatch
    \/ EndBatch

NextBatch ==
    \/ /\ ControlsAvailable
       /\ \E kind \in SearchParametersKinds, selected \in SelectedResults :
             StartPriceAnalysis(kind, selected)
    \/ BatchStep

SpecBatch == Init /\ [][NextBatch]_vars

\* every external call returns or raises, and the script runs on
SpecBatchFair == SpecBatch /\ WF_vars(BatchStep)

----------------------------------------------------------------------------
(* Further properties *)

\* the position of the first "/" of url at or after token j, Len(url) + 1
\* when there is none
FirstSlashFrom(url, j) ==
    IF \E p \in j..Len(url) : url[p] = "/"
    THEN CHOOSE p \in j..Len(url) : url[p] = "/" /\ \A k \in j..(p - 1) : url[k] # "/"
    ELSE Len(url) + 1

\* the host of a url that begins with its scheme: the text after the scheme
\* and an optional www. up to the next "/"; the placeholder for a url
\* without scheme
HostOfUrl(url) ==
    IF Len(url) >= 2 /\ url[1] \in {"http://", "https://"}
    THEN LET start == IF Len(url) >= 3 /\ url[2] = "www." /\ url[3] # "/" THEN 3 ELSE 2
         IN  SubSeq(url, start, FirstSlashFrom(url, start) - 1)
    ELSE <<"Unknown domain">>

\* C11: under every policy the domain field of a returned entry is the host
\* of the entry's own url (the placeholder "Unknown domain" when the url has
\* no scheme), never the queried whitelist domain.
C11_DomainFromUrl ==
    ReturnedResults =>
        \A k \in 1..Len(run.ret.results) :
            run.ret.results[k].domain = HostOfUrl(run.ret.results[k].url)

\* a whitelist call returns an entry of another host than the one queried,
\* taken from a url with a www. prefix
C11_Witness ==
    /\ WhitelistCall
    /\ Len(run.restricted) = 1
    /\ \E k \in 1..Len(run.ret.results) :
          /\ run.ret.results[k].domain # run.restricted[1]
          /\ run.ret.results[k].domain # <<"Unknown domain">>
          /\ Len(run.ret.results[k].url) >= 2 /\ run.ret.results[k].url[2] = "www."

\* C12: generate_search_phrase is called only from a state in which group,
\* module, part and specification all have a value, and with these values;
\* while one of the four is empty neither the button that generates the
\* phrase nor the button that searches with it can be pressed.
C12_GenerateNeedsFullSelection ==
    /\ generate_call.called =>
          /\ generate_call.arguments = selection
          /\ \A k \in 1..Len(Levels) : generate_call.arguments[Levels[k]] # ""
    /\ (\E k \in 1..Len(Levels) : selection[Levels[k]] = "") =>
          /\ ~ENABLED (\E outcome \in PhraseOutcomes : GeneratePhrase(outcome))
          /\ ~ENABLED (\E phrase \in Phrases, n \in SpecTotals :
                          \E google \in GoogleAnswers(RestrictedArg, SpecResponses) :
                             SearchProducts(phrase, n, google))

\* the phrase generator was called for a complete selection
C12_Witness ==
    /\ generate_call.called
    /\ \A k \in 1..Len(Levels) : selection[Levels[k]] # ""

\* the stages an analysis has not left yet
OpenStages == {"Unanalyzed", "Scraping", "Classifying", "DirectExtraction",
               "AggregatorExpansion", "PerSubUrlExtraction"}

\* the order of the stages with a classification between the scrape and the
\* extraction
ClaimedOrder ==
    {<<"Unanalyzed", "Scraping">>, <<"Scraping", "Classifying">>,
     <<"Classifying", "DirectExtraction">>, <<"Classifying", "AggregatorExpansion">>,
     <<"AggregatorExpansion", "PerSubUrlExtraction">>, <<"AggregatorExpansion", "Done">>,
     <<"PerSubUrlExtraction", "PerSubUrlExtraction">>, <<"PerSubUrlExtraction", "Done">>,
     <<"DirectExtraction", "Done">>}
    \cup {<<stage, "Failed">> : stage \in OpenStages}

\* the order of the stages when the caller's flag picks the branch
FlagOrder ==
    {<<"Unanalyzed", "Scraping">>,
     <<"Scraping", "DirectExtraction">>, <<"Scraping", "AggregatorExpansion">>,
     <<"AggregatorExpansion", "PerSubUrlExtraction">>, <<"AggregatorExpansion", "Done">>,
     <<"PerSubUrlExtraction", "PerSubUrlExtraction">>, <<"PerSubUrlExtraction", "Done">>,
     <<"DirectExtraction", "Done">>}
    \cup {<<stage, "Failed">> : stage \in OpenStages \ {"Classifying"}}

\* a step of the analysis of one URL takes a pair of `order`, so that
\* nothing happens for the URL after Done or Failed; the batch leaves a URL
\* only in Done or Failed
FollowsOrder(order) ==
    /\ (batch.status = "running" /\ batch'.status = "running" /\ batch'.i = batch.i
        /\ analysis' # analysis)
          => <<analysis.stage, analysis'.stage>> \in order
    /\ (batch.status = "running" /\ batch'.i # batch.i)
          => analysis.stage \in {"Done", "Failed"}

\* no external call is made twice for the same page
NoRepeatedCall ==
    \A j, k \in 1..Len(analysis.calls) : j # k => analysis.calls[j] # analysis.calls[k]

\* an analysis that was started ends
AnalysisEnds ==
    (batch.status = "running" /\ analysis.stage = "Unanalyzed")
        ~> (analysis.stage \in {"Done", "Failed"})

\* C13 (as claimed): the analysis of one URL goes Unanalyzed -> Scraping ->
\* Classifying -> {DirectExtraction | AggregatorExpansion ->
\* PerSubUrlExtraction x N} -> Done | Failed, no call is repeated, every
\* analysis ends in Done or Failed and nothing is called after Failed.
C13_ClassifiedStateMachine ==
    /\ [][FollowsOrder(ClaimedOrder)]_vars
    /\ []NoRepeatedCall
    /\ AnalysisEnds

\* C13 (amended): analyze_product_url goes Unanalyzed -> Scraping ->
\* {DirectExtraction | AggregatorExpansion -> PerSubUrlExtraction x N} ->
\* Done | Failed, the branch being the caller's flag; no call is repeated,
\* every analysis ends in Done or Failed and nothing is called after either.
C13_StateMachine ==
    /\ [][FollowsOrder(FlagOrder)]_vars
    /\ []NoRepeatedCall
    /\ AnalysisEnds

\* an aggregator page with two product URLs was analysed to the end
C13_Witness ==
    /\ analysis.stage = "Done"
    /\ Len(analysis.urls_list) = 2
    /\ \E k \in 1..Len(analysis.calls) : analysis.calls[k] = <<"parse", 2>>

\* C14: in a batch the analyses are attempted in the order of the selected
\* results, each once, whatever the earlier ones ended in; a batch that was
\* started reaches the completed state, and then every selected result was
\* attempted.
C14_BatchCompletes ==
    /\ [](/\ Len(batch.attempts) <= Len(batch.selected_results)
          /\ \A k \in 1..Len(batch.attempts) :
                batch.attempts[k] = batch.selected_results[k].url
          /\ batch.status = "running" => Len(batch.attempts) \in {batch.i - 1, batch.i}
          /\ batch.status = "completed" =>
                /\ Len(batch.attempts) = Len(batch.selected_results)
                /\ Len(batch.outcomes) = Len(batch.selected_results))
    /\ (batch.status = "running") ~> (batch.status = "completed")

\* a batch was completed whose first analysis failed and whose second
\* returned a list
C14_Witness ==
    /\ batch.status = "completed"
    /\ Len(batch.outcomes) = 2
    /\ batch.outcomes[1].ret = "None"
    /\ batch.outcomes[2].ret = "list"

\* C15: when get_urls returns no product URL for an aggregator page,
\* analyze_product_url returns the empty list after the scrape of the page
\* and the one get_urls call, without a call for a sub-URL.
C15_NoUrlsEmptyList ==
    (analysis.extractor = "returned" /\ analysis.urls_list = <<>>) =>
        /\ analysis.stage = "Done"
        /\ analysis.ret = "list"
        /\ analysis.product_list = <<>>
        /\ analysis.calls = << <<"scrape", 0>>, <<"get_urls", 0>> >>

\* get_urls returned no product URL
C15_Witness ==
    /\ analysis.extractor = "returned"
    /\ analysis.urls_list = <<>>
    /\ analysis.stage = "Done"

\* C16 (as claimed): a selected result whose analysis returned an empty
\* list is reported as empty, and only an analysis that returned None or
\* raised is reported as failed.
C16_EmptyNotFailed ==
    batch.status = "completed" =>
        \A k \in 1..Len(batch.selected_results) :
            /\ (batch.outcomes[k].ret = "list" /\ batch.outcomes[k].product_list = <<>>)
                  => batch.reports[k] = "empty"
            /\ batch.reports[k] = "failed"
                  => batch.outcomes[k].ret \in {"None", "raised"}

\* C17 (as claimed): whatever search_parameters the caller passes,
\* analyze_product_url returns a list or None and raises nothing.
C17_NothingEscapes ==
    analysis.stage \in {"Done", "Failed"} => analysis.ret \in {"list", "None"}

\* one of the four credentials is not configured / all four are
CredentialMissing == \E k \in 1..Len(Credentials) : Credentials[k] \notin secrets
CredentialsPresent == ~CredentialMissing

\* a control of one of the tabs, or the start of a batch, can be used
SomeControlEnabled ==
    \/ ENABLED (\E k \in 1..Len(Levels) :
                   \E value \in Options(SpecsData, selection, Levels[k]) \cup {""} :
                      Select(Levels[k], value))
    \/ ENABLED (\E outcome \in PhraseOutcomes : GeneratePhrase(outcome))
    \/ ENABLED RegeneratePhrase
    \/ ENABLED (\E m \in DomainModes : SetDomainMode(m))
    \/ ENABLED (\E raw \in AddInputs : AddRestrictedDomain(raw))
    \/ ENABLED (\E i \in 1..Len(restricted_domains) : UncheckRestricted(i))
    \/ ENABLED (\E phrase \in Phrases, n \in SpecTotals :
                   \E google \in GoogleAnswers(RestrictedArg, SpecResponses) :
                      SearchProducts(phrase, n, google))
    \/ ENABLED (\E search_query \in Phrases, n \in DirectTotals :
                   \E google \in GoogleAnswers(<<>>, Responses) :
                      DirectSearch(search_query, ModeAll, <<>>, <<>>, <<>>, n, google))
    \/ ENABLED (\E kind \in SearchParametersKinds, selected \in SelectedResults :
                   StartPriceAnalysis(kind, selected))

\* C18: while one of the four credentials is missing, a script run stops at
\* the configuration check: it makes no call of the catalog store, no
\* search request, no call of the language model and no scrape, and no
\* selection, search or analysis control can be used.
C18_MissingCredentialStops ==
    CredentialMissing =>
        /\ startup.ran =>
              /\ startup.stopped
              /\ startup.missing_keys # <<>>
              /\ ~startup.catalog.called /\ ~startup.parameters.called
              /\ startup.specs_data = <<>>
        /\ run = NoRun
        /\ generate_call = NoCall
        /\ batch = IdleBatch
        /\ ~SomeControlEnabled

\* a run stopped for a single missing credential although the store is
\* configured
C18_Witness ==
    /\ startup.ran /\ startup.stopped
    /\ "mysql" \in secrets
    /\ Len(startup.missing_keys) = 1
    /\ CredentialMissing

\* C19 (as claimed): when the store's configuration is absent and the four
\* credentials are present, a script run serves the sample rows and the
\* sample parameters and does not stop.
C19_AbsentStoreMeansDemo ==
    (startup.ran /\ CredentialsPresent /\ "mysql" \notin secrets) =>
        /\ ~startup.stopped
        /\ startup.specs_data = get_demo_specs_data
        /\ selection.specifikacija # "" => startup.spec_params = get_demo_spec_params

\* C19 (amended): with the four credentials present, a script run with the
\* demo checkbox checked serves the sample rows and the sample parameters
\* without a call of the store and does not stop, whether or not the store
\* is configured; with the checkbox unchecked and the store's configuration
\* absent it stops with "mysql configuration" as the missing key.
C19_DemoModeByCheckbox ==
    (startup.ran /\ CredentialsPresent) =>
        /\ demo_mode =>
              /\ ~startup.stopped
              /\ startup.specs_data = get_demo_specs_data
              /\ selection.specifikacija # "" => startup.spec_params = get_demo_spec_params
              /\ ~startup.catalog.called /\ ~startup.parameters.called
        /\ (~demo_mode /\ "mysql" \notin secrets) =>
              /\ startup.stopped
              /\ startup.missing_keys = <<"mysql configuration">>

\* a run in the demo mode without a configured store served the sample
\* parameters of a selected specification
C19_Witness ==
    /\ startup.ran /\ demo_mode /\ CredentialsPresent
    /\ "mysql" \notin secrets
    /\ ~startup.stopped
    /\ selection.specifikacija # ""
    /\ startup.spec_params = get_demo_spec_params

\* the call f of a catalog function failed to connect or to query
FetchFailed(f) ==
    f.called /\ (f.connect # "connected" \/ f.query \in {"error", "error_lost"})

\* the messages that tell the user of a failure of the store
FailureMessages ==
    {"Error connecting to MySQL database", "Error executing query",
     "Failed to retrieve product specifications from database."}

\* C20 (as claimed): a call of get_product_specifications or of
\* get_specification_parameters that fails to connect or to query returns
\* the empty list, the run shows the user a message about the failure, no
\* connection is left open, and the call has connected once and queried at
\* most once.
C20_FetchFailureHandled ==
    \A f \in {startup.catalog, startup.parameters} :
        FetchFailed(f) =>
            /\ f.ret = <<>>
            /\ \E k \in 1..Len(startup.messages) : startup.messages[k] \in FailureMessages
            /\ f.open = 0
            /\ f.connects = 1
            /\ f.queries <= 1

\* C21: a call of generate_search_phrase that returns None is the only
\* call of its run and leaves the session's phrase and flag as they were,
\* the flag false, so that the button "Generate Search Phrase" is shown
\* again.
C21_FailedGenerationKeepsSession ==
    [][(generate_call'.called /\ ~generate_call.called /\ ~generate_call'.ret.ok) =>
          /\ generate_call'.calls = 1
          /\ search_phrase' = search_phrase
          /\ search_phrase_generated' = search_phrase_generated
          /\ ~search_phrase_generated'
          /\ GenerateAvailable']_vars

\* a generation failed while the session held the phrase of an earlier one
C21_Witness ==
    /\ generate_call.called
    /\ ~generate_call.ret.ok
    /\ search_phrase # <<>>
    /\ GenerateAvailable

\* C22 (as claimed): every phrase generate_search_phrase returns is not
\* empty and contains "kaina".
C22_PhraseHasKaina ==
    (generate_call.called /\ generate_call.ret.ok) =>
        /\ generate_call.ret.search_phrase # <<>>
        /\ Contains(generate_call.ret.search_phrase, <<"kaina">>)

\* the analysis of the current result is going on
AnalysisRunning ==
    analysis.stage \in {"Scraping", "AggregatorExpansion", "PerSubUrlExtraction",
                        "DirectExtraction", "Done", "Failed"}
        /\ batch.status = "running" /\ batch.i <= Len(batch.selected_results)

\* C23: a batch works strictly one request after the other.  The analysis of
\* a selected result is begun only when every earlier one has returned (the
\* begun analyses are the returned ones plus at most the running one, in the
\* order of the selection), and within an aggregator page the scrape and the
\* extraction of a sub-URL are asked only after those of every earlier
\* sub-URL, the scrape of a sub-URL before its extraction.
C23_OneRequestAtATime ==
    /\ Len(batch.attempts) = Len(batch.outcomes) + (IF AnalysisRunning THEN 1 ELSE 0)
    /\ \A k \in 1..Len(batch.attempts) : batch.attempts[k] = batch.selected_results[k].url
    /\ \A p, q \in 1..Len(analysis.calls) :
          p < q =>
             /\ analysis.calls[p][2] <= analysis.calls[q][2]
             /\ (analysis.calls[p][2] = analysis.calls[q][2] /\ analysis.calls[p][2] >= 1) =>
                   (analysis.calls[p][1] = "scrape" /\ analysis.calls[q][1] = "parse")

\* the second selected result is analysed after the first returned, and the
\* second sub-URL of its page is scraped after the extraction of the first
C23_Witness ==
    /\ Len(batch.attempts) = 2 /\ Len(batch.outcomes) = 1
    /\ \E p, q \in 1..Len(analysis.calls) :
          p < q /\ analysis.calls[p] = <<"parse", 1>> /\ analysis.calls[q] = <<"scrape", 2>>

\* the step is a search of the direct tab
DirectSearchStep == run.handler = "none" /\ run'.handler = "DirectSearch"

\* C29: the search history is append-only.  A search of the direct tab that
\* returns a results value appends exactly one entry, holding its query and
\* its result list; a search that returns an error value appends nothing; no
\* step removes or changes an entry the history holds; and the history tab
\* lists the entries newest first.
C29_HistoryAppendOnly ==
    [][/\ Len(search_history') >= Len(search_history)
       /\ SubSeq(search_history', 1, Len(search_history)) = search_history
       /\ (DirectSearchStep /\ ReturnedResults') =>
             /\ search_history' = Append(search_history,
                                         [query |-> run'.query, results |-> run'.ret.results])
             /\ HistoryListing(search_history') =
                   <<[query |-> run'.query, results |-> run'.ret.results]>>
                       \o HistoryListing(search_history)
       /\ (DirectSearchStep /\ "error" \in run'.ret.keys) => search_history' = search_history
       /\ ~DirectSearchStep => search_history' = search_history]_vars

\* a second, different entry was appended to the history by the search of
\* the run, and the listing starts with it
C29_Witness ==
    /\ run.handler = "DirectSearch" /\ ReturnedResults
    /\ Len(search_history) = 2
    /\ search_history[1] # search_history[2]
    /\ HistoryListing(search_history)[1] = [query |-> run.query, results |-> run.ret.results]

\* the specification-based tab shows stored search results with their
\* checkboxes and the button "Start Price Analysis"
ResultsOffered ==
    /\ SearchAvailable
    /\ search_completed
    /\ "error" \notin search_results.keys
    /\ search_results.results # <<>>

\* C24 (as claimed): the search results the specification-based tab offers
\* for price analysis were retrieved under the selection the session holds,
\* which is the one handed to analyze_product_url as search_parameters.
C24_ResultsOfSameSelection ==
    ResultsOffered => searched_selection = session_selection

\* C25: a run whose complete four-level selection differs in some level from
\* the selection the session holds stores it and resets
\* search_phrase_generated, so that the search is not offered; the flag
\* becomes true again only by a phrase generated for the selection the
\* session then holds, and a search is issued only with the flag set; a
\* selector run that ends with the selection the session holds leaves the
\* flag as it was.
C25_ChangedSelectionResetsFlag ==
    [][/\ (AllSelected(selection') /\ selection' # session_selection) =>
             /\ ~search_phrase_generated'
             /\ session_selection' = selection'
             /\ ~SearchAvailable'
       /\ (selection' # selection /\ selection' = session_selection) =>
             search_phrase_generated' = search_phrase_generated
       /\ (~search_phrase_generated /\ search_phrase_generated') =>
             /\ generate_call'.called /\ generate_call'.ret.ok
             /\ generate_call'.arguments = session_selection'
       /\ (run.handler = "none" /\ run'.handler = "SearchProducts") =>
             (search_phrase_generated /\ selection = session_selection)]_vars

\* results were retrieved under one selection, another complete selection
\* was made since, and the search waits for a new phrase
C25_Witness ==
    /\ search_completed
    /\ searched_selection # NoSelection
    /\ AllSelected(selection)
    /\ session_selection = selection
    /\ searched_selection # session_selection
    /\ ~search_phrase_generated
    /\ ~SearchAvailable
    /\ GenerateAvailable

\* C26: under the whitelist branch a failing sub-query does not end the
\* loop.  Every whitelist domain is still queried, in whitelist order, the
\* ones after the failing domain included; the failing domains contribute
\* no entry; and the call returns a results value holding the items of the
\* answered sub-queries, in request order, cut to the requested number.
C26_FailedDomainSkipped ==
    (WhitelistCall /\ SomeRequestFailed) =>
        /\ Len(run.requests) = Len(run.restricted)
        /\ \A i \in 1..Len(run.restricted) :
              run.requests[i].q = run.query \o <<" site:">> \o run.restricted[i]
        /\ ReturnedResults
        /\ TitleUrl(run.ret.results) = Take(AllAnswerItems, run.num_results)

\* the sub-query of the first whitelist domain fails, the second domain is
\* queried all the same and its items are the results returned
C26_Witness ==
    /\ WhitelistCall
    /\ Len(run.restricted) = 2
    /\ ~run.google[1].ok
    /\ Len(run.requests) = 2
    /\ AnswerItems(2) # <<>>
    /\ TitleUrl(run.ret.results) = AnswerItems(2)

\* the loop over the product URLs of an aggregator page is under way or over
InSubUrlLoop == analysis.stage \in {"PerSubUrlExtraction", "Done"} /\ analysis.urls_list # <<>>

\* the products the k-th round of the loop found: those of a sub-URL that
\* was scraped with markdown and whose extraction returned
Contribution(k) == [j \in 1..analysis.rounds[k].found |-> <<k, j>>]

\* the call was made during the analysis
Called(call) == \E p \in 1..Len(analysis.calls) : analysis.calls[p] = call

\* C27: for an aggregator page the list returned is the concatenation, in
\* the order of the extracted URL list, of the products of every sub-URL
\* that was scraped and parsed.  An entry without product_url is skipped
\* without a scrape; a sub-URL whose scrape or extraction fails contributes
\* nothing and the loop goes on to the last entry.
C27_AggregatorConcatenation ==
    InSubUrlLoop =>
        /\ Len(analysis.rounds) = analysis.sub - 1
        /\ \A k \in 1..Len(analysis.rounds) :
              /\ analysis.rounds[k].product_url = analysis.urls_list[k]
              /\ Called(<<"scrape", k>>) <=> analysis.urls_list[k] # ""
              /\ Called(<<"parse", k>>) <=> analysis.rounds[k].markdown
              /\ analysis.rounds[k].found > 0 => analysis.rounds[k].markdown
        /\ analysis.product_list =
              Flatten([k \in 1..Len(analysis.rounds) |-> Contribution(k)])
        /\ analysis.stage = "Done" =>
              /\ Len(analysis.rounds) = Len(analysis.urls_list)
              /\ analysis.ret = "list"

\* two sub-URLs, each scraped and parsed with a product of its own: the list
\* holds the product of the first before that of the second
C27_Witness ==
    /\ analysis.stage = "Done"
    /\ Len(analysis.rounds) = 2
    /\ Contribution(1) = << <<1, 1>> >>
    /\ Contribution(2) = << <<2, 1>> >>
    /\ analysis.product_list = << <<1, 1>>, <<2, 1>> >>

\* C28: no extraction is asked about a page before the scrape of that page
\* returned markdown.  The calls about the page itself (get_urls, the direct
\* extraction) follow a first call that scraped it with markdown; the
\* extraction of a sub-URL follows the scrape of that sub-URL, which gave
\* markdown; and when the scrape of the page fails or gives no markdown the
\* analysis returns None with the scrape as its only call.
C28_NoExtractionBeforeScrape ==
    /\ (Called(<<"get_urls", 0>>) \/ Called(<<"parse", 0>>)) =>
          /\ analysis.calls[1] = <<"scrape", 0>>
          /\ analysis.scraped = "markdown"
    /\ \A q \in 1..Len(analysis.calls) :
          (analysis.calls[q][1] = "parse" /\ analysis.calls[q][2] >= 1) =>
             /\ \E p \in 1..(q - 1) : analysis.calls[p] = <<"scrape", analysis.calls[q][2]>>
             /\ analysis.rounds[analysis.calls[q][2]].markdown
    /\ analysis.scraped \in {"error", "no_markdown"} =>
          /\ analysis.calls = << <<"scrape", 0>> >>
          /\ analysis.stage = "Failed"
          /\ analysis.ret = "None"

\* the scrape of the page came back without markdown: None, and no other call
C28_Witness ==
    /\ analysis.scraped = "no_markdown"
    /\ analysis.ret = "None"
    /\ analysis.calls = << <<"scrape", 0>> >>
    /\ batch.status = "running"

\* the three domain lists of the specification-based tab
SessionLists == <<restricted_domains, included_domains, excluded_domains>>

\* no entry twice and no "/" in an entry
CleanList(list) ==
    /\ \A j, k \in 1..Len(list) : j # k => list[j] # list[k]
    /\ \A k \in 1..Len(list) : ~Contains(list[k], <<"/">>)

\* new is old without its i-th entry
Without(old, new, i) ==
    /\ Len(new) = Len(old) - 1
    /\ \A k \in 1..Len(new) : new[k] = IF k < i THEN old[k] ELSE old[k + 1]

\* C30: whatever domains are added and unchecked in the specification-based
\* tab, each of restricted_domains, included_domains and excluded_domains
\* holds no entry twice and no entry with a "/"; a step that shortens a list
\* removes exactly one entry, which is then absent from the list, and leaves
\* the other entries and their order, and the other two lists, as they were.
C30_DomainListsClean ==
    /\ [](\A n \in 1..3 : CleanList(SessionLists[n]))
    /\ [][\A n \in 1..3 :
            Len(SessionLists'[n]) < Len(SessionLists[n]) =>
               /\ \E i \in 1..Len(SessionLists[n]) :
                     /\ Without(SessionLists[n], SessionLists'[n], i)
                     /\ ~InList(SessionLists[n][i], SessionLists'[n])
               /\ \A m \in 1..3 : m # n => SessionLists'[m] = SessionLists[m]]_vars

\* domains typed with upper case, scheme, "www." and a path were added to
\* each list, and the default exclusion was unchecked
C30_Witness ==
    /\ Len(included_domains) = 2
    /\ InList(<<"b", ".lt">>, included_domains)
    /\ Len(excluded_domains) = 2
    /\ ~InList(DefaultExcluded[1], excluded_domains)
    /\ Len(restricted_domains) = 1

====
